---- MODULE Spec2Model ----
(***************************************************************************)
(* Model of PIXI.resources.BufferResource                                  *)
(* (packages/core/src/textures/resources/BufferResource.js).               *)
(*                                                                         *)
(* One resource object is tracked from its construction to its disposal,   *)
(* together with the collaborators its methods touch: the GLTexture handed *)
(* to upload and the WebGL contexts of the renderers.  Every method is one *)
(* action (JavaScript runs a method to completion); the calls a method     *)
(* makes on the context are recorded, in order, in `calls`, and the        *)
(* arguments and outcome of the method in `lastOp`.                        *)
(***************************************************************************)
EXTENDS Integers, Sequences, FiniteSets

\* ------------------------------------------------------------------ bounds
MaxSize == 1    \* largest width/height handed to the constructor
MaxDim  == 2    \* largest width/height of a BaseTexture or GLTexture

\* ------------------------------------------------- WebGL enumerants in use
RGBA == 6408
RGB  == 6407
S3TC_DXT1 == 33776
S3TC_DXT3 == 33778

\* ------------------------------------------------------ JavaScript values
Undefined == [t |-> "undefined", v |-> 0]
Num(n)    == [t |-> "number", v |-> n]

\* ToBoolean of a value that is undefined or a number
Truthy(x) == x.t = "number" /\ x.v # 0

\* the option objects the constructor is called with; present = FALSE is a
\* call without options
SizeValues == {Undefined} \cup {Num(n) : n \in -1..MaxSize}
OptionValues ==
    {[present |-> FALSE, width |-> Undefined, height |-> Undefined]}
    \cup {[present |-> TRUE, width |-> w, height |-> h] :
              w \in SizeValues, h \in SizeValues}

\* a call without options and a call with a valid square size
SquareOptions ==
    {o \in OptionValues :
        ~o.present \/ (o.width = Num(MaxSize) /\ o.height = Num(MaxSize))}

\* const { width, height } = options || {}
Destructure(options) ==
    IF options.present THEN [width |-> options.width, height |-> options.height]
    ELSE [width |-> Undefined, height |-> Undefined]

\* ---------------------------------------------------- rendering contexts
\* Two renderers: the context of r0 exposes no compressed-texture extension,
\* the context of r1 exposes S3TC and reports two formats.
Renderers == {"r0", "r1"}

ExtensionNames == << "WEBGL_compressed_texture_pvrtc",
                     "WEBGL_compressed_texture_s3tc",
                     "WEBGL_compressed_texture_etc1",
                     "WEBGL_compressed_texture_astc" >>

\* gl.getExtension(name) is truthy exactly for these names
Extensions(r) ==
    IF r = "r1" THEN {"WEBGL_compressed_texture_s3tc"} ELSE {}

\* gl.getParameter(gl.COMPRESSED_TEXTURE_FORMATS)
DriverFormats(r) ==
    IF r = "r1" THEN << S3TC_DXT1, S3TC_DXT3 >> ELSE << >>

\* baseTexture inputs of upload: the two standard formats and a compressed
\* one, and the sizes up to MaxDim that are at least as wide as high (two of
\* them can agree, or differ in width only, in height only, or in both)
Formats == {RGBA, RGB, S3TC_DXT1}
Types   == {"UNSIGNED_BYTE"}
BaseTextures ==
    {b \in [format : Formats, type : Types, target : {"TEXTURE_2D"},
            width : 1..MaxDim, height : 1..MaxDim, premultiplyAlpha : BOOLEAN] :
        b.width >= b.height}
SquareBaseTextures == {b \in BaseTextures : b.width = b.height}

VARIABLES
    constructed,               \* the constructor has returned a resource
    width, height,             \* the resource's size (set by super(width, height))
    data,                      \* this.data: "unbound", "buffer" or "null"
    compressedTextureFormats,  \* this.compressedTextureFormats
    glTexture,                 \* the GLTexture handed to upload
    unpackPremultiplyAlpha,    \* per context: UNPACK_PREMULTIPLY_ALPHA_WEBGL
    calls,                     \* the calls the last method made on its context
    lastOp                     \* the last method call: arguments and outcome

vars == << constructed, width, height, data, compressedTextureFormats,
           glTexture, unpackPremultiplyAlpha, calls, lastOp >>

\* a field that was never assigned
Unset == [defined |-> FALSE, items |-> << >>]
\* a field holding the array `items`
ArrayOf(items) == [defined |-> TRUE, items |-> items]

Init ==
    /\ constructed = FALSE
    /\ width = 0
    /\ height = 0
    /\ data = "unbound"
    /\ compressedTextureFormats = Unset
    /\ glTexture = [width |-> 0, height |-> 0,
                    internalFormat |-> RGBA, type |-> "UNSIGNED_BYTE"]
    /\ unpackPremultiplyAlpha = [r \in Renderers |-> FALSE]
    /\ calls = << >>
    /\ lastOp = [op |-> "none"]

\* ------------------------------------------------------------ constructor
\* variant: the guard with && in place of ||
InvalidSize_And(w, h) == ~Truthy(w) /\ ~Truthy(h)
\* if (!width || !height)
InvalidSize(w, h) == ~Truthy(w) \/ ~Truthy(h)

\* super(width, height): the base Resource records the size
ResourceSize(w, h) == [width |-> w.v, height |-> h.v]

Construct(options) ==
    /\ ~constructed
    /\ LET o == Destructure(options) IN
       IF InvalidSize(o.width, o.height)
       THEN /\ lastOp' = [op |-> "construct", options |-> options,
                          outcome |-> "threw",
                          error |-> "BufferResource width or height invalid"]
            /\ UNCHANGED << constructed, width, height, data >>
       ELSE /\ constructed' = TRUE
            /\ width' = ResourceSize(o.width, o.height).width
            /\ height' = ResourceSize(o.width, o.height).height
            /\ data' = "buffer"
            /\ lastOp' = [op |-> "construct", options |-> options,
                          outcome |-> "returned"]
    /\ calls' = << >>
    /\ UNCHANGED << compressedTextureFormats, glTexture, unpackPremultiplyAlpha >>

\* ------------------------------------------- getCompressedTextureFormats
\* the getExtension calls of the || chain: it stops at the first truthy one
RECURSIVE ExtensionLookups(_, _)
ExtensionLookups(r, i) ==
    IF i > Len(ExtensionNames) THEN << >>
    ELSE << [fn |-> "getExtension", name |-> ExtensionNames[i]] >>
         \o (IF ExtensionNames[i] \in Extensions(r) THEN << >>
             ELSE ExtensionLookups(r, i + 1))

AnyExtension(r) == \E i \in 1..Len(ExtensionNames) : ExtensionNames[i] \in Extensions(r)

\* variant: the test on the array's length, which takes an empty array for
\* an unpopulated cache
IsPopulated_Length(cache) == cache.defined /\ Len(cache.items) > 0
\* !this.compressedTextureFormats is false for every array, the empty one too
IsPopulated(cache) == cache.defined

\* the method on a cache value: the cache it leaves, the calls it makes on
\* the context and the array it returns
FormatsLookup(cache, r) ==
    IF ~IsPopulated(cache)
    THEN IF AnyExtension(r)
         THEN [cache |-> ArrayOf(DriverFormats(r)),
               calls |-> ExtensionLookups(r, 1)
                         \o << [fn |-> "getParameter",
                                pname |-> "COMPRESSED_TEXTURE_FORMATS"] >>,
               ret   |-> DriverFormats(r)]
         ELSE [cache |-> ArrayOf(<< >>),
               calls |-> ExtensionLookups(r, 1),
               ret   |-> << >>]
    ELSE [cache |-> cache, calls |-> << >>, ret |-> cache.items]

getCompressedTextureFormats(r) ==
    /\ constructed
    /\ LET g == FormatsLookup(compressedTextureFormats, r) IN
       /\ compressedTextureFormats' = g.cache
       /\ calls' = g.calls
       /\ lastOp' = [op |-> "getCompressedTextureFormats", renderer |-> r,
                     outcome |-> "returned", ret |-> g.ret]
    /\ UNCHANGED << constructed, width, height, data, glTexture,
                    unpackPremultiplyAlpha >>

\* ----------------------------------------------------------------- upload
\* Array.prototype.indexOf: the first index (from 0) holding x, or -1
IndexOf(s, x) ==
    IF \E i \in 1..Len(s) : s[i] = x
    THEN (CHOOSE i \in 1..Len(s) : s[i] = x /\ \A j \in 1..(i - 1) : s[j] # x) - 1
    ELSE -1

\* variant: indexOf(internalFormat) > 0, which misses the first element
Listed_Positive(s, x) == IndexOf(s, x) > 0
\* ....indexOf(internalFormat) > -1
Listed(s, x) == IndexOf(s, x) > -1

\* internalFormat !== gl.RGBA && internalFormat !== gl.RGB, the left part of
\* the && chain; only when it holds is getCompressedTextureFormats called
NotStandard(internalFormat) == internalFormat # RGBA /\ internalFormat # RGB

\* variant: glTexture.width compared with baseTexture.height
SameSize_Typo(gl, baseTexture) ==
    gl.width = baseTexture.height /\ gl.height = baseTexture.height
\* glTexture.width === baseTexture.width && glTexture.height === baseTexture.height
SameSize(gl, baseTexture) ==
    gl.width = baseTexture.width /\ gl.height = baseTexture.height

\* variant: glTexture.height = baseTexture.width
Resized_Typo(gl, baseTexture) ==
    [gl EXCEPT !.width = baseTexture.width, !.height = baseTexture.width]
\* glTexture.width = baseTexture.width; glTexture.height = baseTexture.height
Resized(gl, baseTexture) ==
    [gl EXCEPT !.width = baseTexture.width, !.height = baseTexture.height]

\* variant: the flag always switched on
UnpackParam_Constant(baseTexture) == TRUE
\* the value handed to gl.pixelStorei(gl.UNPACK_PREMULTIPLY_ALPHA_WEBGL, ...)
UnpackParam(baseTexture) == baseTexture.premultiplyAlpha

\* the transfer call of upload; `at` is what the call finds when it is
\* issued: the GLTexture's recorded size and the context's unpack flag
Transfer(fn, baseTexture, gl, buf, at) ==
    CASE fn = "compressedTexSubImage2D" ->
            [fn |-> fn, target |-> baseTexture.target, level |-> 0,
             xoffset |-> 0, yoffset |-> 0,
             width |-> baseTexture.width, height |-> baseTexture.height,
             format |-> baseTexture.format, pixels |-> buf, at |-> at]
      [] fn = "texSubImage2D" ->
            [fn |-> fn, target |-> baseTexture.target, level |-> 0,
             xoffset |-> 0, yoffset |-> 0,
             width |-> baseTexture.width, height |-> baseTexture.height,
             format |-> baseTexture.format, type |-> baseTexture.type,
             pixels |-> buf, at |-> at]
      [] fn = "compressedTexImage2D" ->
            [fn |-> fn, target |-> baseTexture.target, level |-> 0,
             internalformat |-> baseTexture.format,
             width |-> baseTexture.width, height |-> baseTexture.height,
             border |-> 0, pixels |-> buf, at |-> at]
      [] OTHER ->
            [fn |-> "texImage2D", target |-> baseTexture.target, level |-> 0,
             internalformat |-> gl.internalFormat,
             width |-> baseTexture.width, height |-> baseTexture.height,
             border |-> 0, format |-> baseTexture.format, type |-> gl.type,
             pixels |-> buf, at |-> at]

\* upload(renderer, baseTexture, glTexture); completes = FALSE is a transfer
\* call that throws: nothing in upload catches it.  lastOp keeps the
\* arguments as they were when the call was made: the GLTexture's fields and
\* the context's unpack flag before upload touched them.
upload(r, baseTexture, completes) ==
    /\ constructed
    /\ LET internalFormat == baseTexture.format
           g == IF NotStandard(internalFormat)
                THEN FormatsLookup(compressedTextureFormats, r)
                ELSE [cache |-> compressedTextureFormats, calls |-> << >>,
                      ret |-> << >>]
           isCompressed == NotStandard(internalFormat) /\ Listed(g.ret, internalFormat)
           flag == UnpackParam(baseTexture)
           store == [fn |-> "pixelStorei",
                     pname |-> "UNPACK_PREMULTIPLY_ALPHA_WEBGL", param |-> flag]
           same == SameSize(glTexture, baseTexture)
           gl == IF same THEN glTexture ELSE Resized(glTexture, baseTexture)
           fn == IF same
                 THEN (IF isCompressed THEN "compressedTexSubImage2D"
                       ELSE "texSubImage2D")
                 ELSE (IF isCompressed THEN "compressedTexImage2D"
                       ELSE "texImage2D")
           at == [width |-> gl.width, height |-> gl.height, unpack |-> flag]
       IN
       /\ compressedTextureFormats' = g.cache
       /\ unpackPremultiplyAlpha' = [unpackPremultiplyAlpha EXCEPT ![r] = flag]
       /\ glTexture' = gl
       /\ calls' = g.calls \o << store, Transfer(fn, baseTexture, gl, data, at) >>
       /\ lastOp' = IF completes
                    THEN [op |-> "upload", renderer |-> r,
                          baseTexture |-> baseTexture, glTexture |-> glTexture,
                          unpack |-> unpackPremultiplyAlpha[r],
                          outcome |-> "returned", ret |-> TRUE]
                    ELSE [op |-> "upload", renderer |-> r,
                          baseTexture |-> baseTexture, glTexture |-> glTexture,
                          unpack |-> unpackPremultiplyAlpha[r],
                          outcome |-> "threw"]
    /\ UNCHANGED << constructed, width, height, data >>

\* ---------------------------------------------------------------- dispose
dispose ==
    /\ constructed
    /\ data' = "null"
    /\ calls' = << >>
    /\ lastOp' = [op |-> "dispose", outcome |-> "returned"]
    /\ UNCHANGED << constructed, width, height, compressedTextureFormats,
                    glTexture, unpackPremultiplyAlpha >>

\* Uploads of every BaseTexture to a resource of one valid size.
Next ==
    \/ \E options \in SquareOptions : Construct(options)
    \/ \E r \in Renderers : getCompressedTextureFormats(r)
    \/ \E r \in Renderers, baseTexture \in BaseTextures, completes \in BOOLEAN :
          upload(r, baseTexture, completes)
    \/ dispose

Spec == Init /\ [][Next]_vars

\* Constructor calls with every option object, followed by the methods with
\* square BaseTextures.
NextSizes ==
    \/ \E options \in OptionValues : Construct(options)
    \/ \E r \in Renderers : getCompressedTextureFormats(r)
    \/ \E r \in Renderers, baseTexture \in SquareBaseTextures, completes \in BOOLEAN :
          upload(r, baseTexture, completes)
    \/ dispose

SpecSizes == Init /\ [][NextSizes]_vars

\* ======================================================== properties
SubImageFns  == {"compressedTexSubImage2D", "texSubImage2D"}
FullImageFns == {"compressedTexImage2D", "texImage2D"}
CompressedFns == {"compressedTexSubImage2D", "compressedTexImage2D"}
IsTransfer(c) == c.fn \in SubImageFns \cup FullImageFns
IsQuery(c) == c.fn \in {"getExtension", "getParameter"}

\* the transfer calls of the last method, in order
Transfers == SelectSeq(calls, IsTransfer)

Uploaded  == lastOp.op = "upload"
Completed == Uploaded /\ lastOp.outcome = "returned"
\* the GLTexture had the BaseTexture's size when upload was called
SizeMatched ==
    /\ lastOp.glTexture.width = lastOp.baseTexture.width
    /\ lastOp.glTexture.height = lastOp.baseTexture.height

\* C1 as stated: after an upload that completes, the GLTexture's width and
\* height are the resource's own width and height.
C1_HandleHasResourceSize ==
    Completed => glTexture.width = width /\ glTexture.height = height

\* C1 amended: after an upload that completes, the GLTexture's width and
\* height are the width and height of the BaseTexture handed to upload,
\* whatever the resource's own size and the GLTexture's prior size were.
C1_HandleHasBaseTextureSize ==
    Completed => /\ glTexture.width = lastOp.baseTexture.width
                 /\ glTexture.height = lastOp.baseTexture.height

\* C1 witness: a completed upload with a BaseTexture whose size is not the
\* resource's and not the GLTexture's prior size.
C1_Witness ==
    /\ Completed
    /\ lastOp.baseTexture.width # width
    /\ lastOp.baseTexture.height # lastOp.baseTexture.width
    /\ ~SizeMatched
    /\ glTexture.width = lastOp.baseTexture.width
    /\ glTexture.height = lastOp.baseTexture.height

\* C2: getCompressedTextureFormats(renderer) returns the formats that the
\* renderer's own context reports, in driver order, and the empty array when
\* that context has none of the four extensions, whichever renderer was
\* asked first on this resource.
C2_FormatsOfOwnContext ==
    lastOp.op = "getCompressedTextureFormats" =>
        lastOp.ret = (IF Extensions(lastOp.renderer) = {} THEN << >>
                      ELSE DriverFormats(lastOp.renderer))

\* C3: every upload issues exactly one transfer call; it is a compressed one
\* iff the format is neither RGBA nor RGB and is in the array the resource
\* holds for getCompressedTextureFormats, and a sub-image one iff the
\* GLTexture had the BaseTexture's size at the call; an upload that returns,
\* returns true.
C3_ExactlyOneTransfer ==
    Uploaded =>
        /\ Len(Transfers) = 1
        /\ Transfers[1].fn \in CompressedFns <=>
               /\ lastOp.baseTexture.format \notin {RGBA, RGB}
               /\ \E i \in 1..Len(compressedTextureFormats.items) :
                      compressedTextureFormats.items[i] = lastOp.baseTexture.format
        /\ Transfers[1].fn \in SubImageFns <=> SizeMatched
        /\ lastOp.outcome = "returned" => lastOp.ret = TRUE

\* C3 witness: an upload that took the compressed sub-image path.
C3_Witness ==
    /\ Completed
    /\ Len(Transfers) = 1
    /\ Transfers[1].fn = "compressedTexSubImage2D"

\* C4: an upload called with a GLTexture of the BaseTexture's size leaves the
\* GLTexture's width and height alone and issues a sub-image transfer and no
\* full-image transfer; and an upload that directly follows a completed
\* upload with the same BaseTexture issues a sub-image transfer.
C4_SameSizeSubImage ==
    /\ [](Uploaded /\ SizeMatched =>
            /\ glTexture.width = lastOp.glTexture.width
            /\ glTexture.height = lastOp.glTexture.height
            /\ Len(Transfers) = 1
            /\ Transfers[1].fn \in SubImageFns)
    /\ [][Completed /\ lastOp'.op = "upload"
            /\ lastOp'.baseTexture = lastOp.baseTexture =>
               /\ glTexture' = glTexture
               /\ \A i \in 1..Len(calls') : calls'[i].fn \notin FullImageFns
               /\ \E i \in 1..Len(calls') : calls'[i].fn \in SubImageFns]_vars

\* C4 witness: an upload found a non-square GLTexture of the BaseTexture's
\* size and issued a sub-image transfer.
C4_Witness ==
    /\ Uploaded
    /\ SizeMatched
    /\ lastOp.glTexture.width # lastOp.glTexture.height
    /\ glTexture = lastOp.glTexture
    /\ Len(Transfers) = 1
    /\ Transfers[1].fn \in SubImageFns

\* C5: an upload called with a GLTexture whose width or height is not the
\* BaseTexture's issues a full-image transfer and no sub-image transfer, and
\* once it has completed the GLTexture has the BaseTexture's size.
C5_MismatchFullImage ==
    Uploaded /\ ~SizeMatched =>
        /\ Len(Transfers) = 1
        /\ Transfers[1].fn \in FullImageFns
        /\ Completed => /\ glTexture.width = lastOp.baseTexture.width
                        /\ glTexture.height = lastOp.baseTexture.height

\* C5 witness: a completed upload that found a GLTexture differing from the
\* BaseTexture in height only and issued a full-image transfer.
C5_Witness ==
    /\ Completed
    /\ lastOp.glTexture.width = lastOp.baseTexture.width
    /\ lastOp.glTexture.height # lastOp.baseTexture.height
    /\ Len(Transfers) = 1
    /\ Transfers[1].fn \in FullImageFns
    /\ glTexture.height = lastOp.baseTexture.height

\* C6: once this.compressedTextureFormats holds an array (the empty one
\* included), no method changes it, no method makes a getExtension or
\* getParameter call, and getCompressedTextureFormats returns that array.
C6_PopulateOnce ==
    [][compressedTextureFormats.defined =>
          /\ compressedTextureFormats' = compressedTextureFormats
          /\ \A i \in 1..Len(calls') : ~IsQuery(calls'[i])
          /\ lastOp'.op = "getCompressedTextureFormats" =>
                 lastOp'.ret = compressedTextureFormats.items]_vars

\* C6 witness: getCompressedTextureFormats answered the empty array from the
\* cache, without a call on the context.
C6_Witness ==
    /\ lastOp.op = "getCompressedTextureFormats"
    /\ calls = << >>
    /\ compressedTextureFormats.defined
    /\ lastOp.ret = << >>

\* the constructor was called without options, or with a width or a height
\* that is undefined or 0
FalsyOptions(options) ==
    \/ ~options.present
    \/ options.width \in {Undefined, Num(0)}
    \/ options.height \in {Undefined, Num(0)}

\* C7: a constructor call without options, or with a width or height that is
\* 0 or absent, throws, and then there is no resource: data was never bound
\* and no field of a resource was set.
C7_InvalidSizeThrows ==
    /\ lastOp.op = "construct" /\ FalsyOptions(lastOp.options) =>
           lastOp.outcome = "threw" /\ ~constructed
    /\ ~constructed =>
           data = "unbound" /\ ~compressedTextureFormats.defined

\* C7 witness: a constructor call with a width and a zero height threw.
C7_Witness ==
    /\ lastOp.op = "construct"
    /\ lastOp.options.present
    /\ lastOp.options.width = Num(1)
    /\ lastOp.options.height = Num(0)
    /\ lastOp.outcome = "threw"
    /\ ~constructed
    /\ data = "unbound"

\* C8: every resource that exists has width > 0 and height > 0, and no
\* method changes its width or height.
C8_PositiveSize ==
    /\ [](constructed => width > 0 /\ height > 0)
    /\ [][constructed => width' = width /\ height' = height]_vars

\* C9: on the full-image path the GLTexture still has its old width and
\* height when the transfer call is issued, and a transfer that throws leaves
\* them as they were.
C9_ResizeAfterTransfer ==
    Uploaded /\ ~SizeMatched /\ Len(Transfers) = 1 =>
        /\ Transfers[1].at.width = lastOp.glTexture.width
        /\ Transfers[1].at.height = lastOp.glTexture.height
        /\ lastOp.outcome = "threw" =>
               /\ glTexture.width = lastOp.glTexture.width
               /\ glTexture.height = lastOp.glTexture.height

\* the positions in the last method's calls that hold a pixelStorei
StorePositions == {i \in 1..Len(calls) : calls[i].fn = "pixelStorei"}

\* C10: every upload makes exactly one pixelStorei call, with the
\* BaseTexture's premultiplyAlpha, before its transfer call, and the transfer
\* call finds the context's flag equal to that premultiplyAlpha.
C10_UnpackBeforeTransfer ==
    Uploaded =>
        /\ Cardinality(StorePositions) = 1
        /\ \A i \in StorePositions :
              /\ calls[i].pname = "UNPACK_PREMULTIPLY_ALPHA_WEBGL"
              /\ calls[i].param = lastOp.baseTexture.premultiplyAlpha
              /\ \A j \in 1..Len(calls) : IsTransfer(calls[j]) => i < j
        /\ \A j \in 1..Len(calls) : IsTransfer(calls[j]) =>
              calls[j].at.unpack = lastOp.baseTexture.premultiplyAlpha
        /\ unpackPremultiplyAlpha[lastOp.renderer]
               = lastOp.baseTexture.premultiplyAlpha

\* C10 witness: an upload found the flag left at TRUE on its context and
\* issued its transfer with the flag at its own premultiplyAlpha, FALSE.
C10_Witness ==
    /\ Uploaded
    /\ lastOp.unpack = TRUE
    /\ lastOp.baseTexture.premultiplyAlpha = FALSE
    /\ Len(Transfers) = 1
    /\ Transfers[1].at.unpack = FALSE

====
